---- MODULE Spec2Model ----
(***************************************************************************)
(* GitHub streak tracker (src/ghstreak/s2.py).                             *)
(*                                                                         *)
(* Calendar dates are day numbers, timestamps are hours (UTC) since an     *)
(* epoch, so that datetime(...).date() is integer division by 24 and       *)
(* timedelta(days=1) is 1.  `now` is the naive local clock the program     *)
(* reads with datetime.now(); `utc_now` is the hosting service's clock.    *)
(* The clock is taken as standing still during one run.                    *)
(*                                                                         *)
(* Two specifications:                                                     *)
(*   Spec      one run of the tool: main -> display_streak_info ->         *)
(*             get_all_activity_dates (five category steps) ->             *)
(*             calculate_streaks;                                          *)
(*   SpecCalc  calculate_streaks applied to an arbitrary ledger and clock. *)
(***************************************************************************)
EXTENDS Integers, Sequences, FiniteSets, TLC

VARIABLES
    pc,               \* position of the run
    now,              \* datetime.now(), local naive time, in hours
    utc_now,          \* the hosting service's clock (UTC), in hours
    args_days,        \* args.days as parsed by argparse
    days_back,        \* days_back of get_all_activity_dates
    repos,            \* the user's repositories, as list_for_user lists them
    failed,           \* categories whose top-level API call raised
    api_log,          \* answers of list_commits during the last commit scan
    commit_queries,   \* repositories list_commits was called for
    release_queries,  \* repositories list_releases was called for
    release_src,      \* repositories a release date was taken from
    cat_dates,        \* the set each get_*_dates call returned
    activity_dates,   \* the ledger: date -> list of activity kinds
    result            \* what calculate_streaks returned

vars == <<pc, now, utc_now, args_days, days_back, repos, failed, api_log,
          commit_queries, release_queries, release_src, cat_dates,
          activity_dates, result>>

(***************************************************************************)
(* Bounds of the model and constants of the program.                       *)
(***************************************************************************)
MaxRepos == 2
MaxCommits == 2
MaxReleases == 1
MaxFound == 1
MaxDate == 7

DefaultDays == 365
DisplayDaysBack == 365

Kinds == {"commit", "repo", "issue", "pr", "release"}

None == <<>>
Some(x) == <<x>>

SeqsUpTo(S, n) == UNION {[1..k -> S] : k \in 0..n}

Count(seq, x) == Cardinality({k \in DOMAIN seq : seq[k] = x})

Range(seq) == {seq[k] : k \in DOMAIN seq}

\* datetime.fromisoformat(s.replace('Z', '+00:00')).date(), and datetime.date()
DateOf(ts) == ts \div 24

Today == DateOf(now)

\* start_date = end_date - timedelta(days=days_back); end_date = datetime.now()
StartDate(db) == now - db * 24
EndDate == now

(***************************************************************************)
(* calculate_streaks                                                       *)
(***************************************************************************)
SetMax(S) == CHOOSE x \in S : \A y \in S : y <= x

RECURSIVE SeqMax(_)
SeqMax(s) ==
    IF Len(s) = 1 THEN s[1]
    ELSE LET m == SeqMax(Tail(s)) IN IF s[1] >= m THEN s[1] ELSE m

\* sorted(date_set, reverse=True)
RECURSIVE sorted_dates_of(_)
sorted_dates_of(date_set) ==
    IF date_set = {} THEN <<>>
    ELSE <<SetMax(date_set)>> \o sorted_dates_of(date_set \ {SetMax(date_set)})

\* while check_date in date_set: current_streak += 1; check_date -= 1 day
RECURSIVE count_back(_, _, _)
count_back(date_set, check_date, streak) ==
    IF check_date \in date_set
    THEN count_back(date_set, check_date - 1, streak + 1)
    ELSE streak

\* faulty variant: the streak is anchored at today only
current_streak_today_only(date_set, today) ==
    IF today \in date_set THEN count_back(date_set, today - 1, 1) ELSE 0

current_streak_of(date_set, today) ==
    IF today \in date_set \/ (today - 1) \in date_set
    THEN LET current_date == IF today \in date_set THEN today ELSE today - 1
         IN  count_back(date_set, current_date - 1, 1)
    ELSE 0

\* for i in range(1, len(sorted_dates)): ...; streaks.append(streak_length)
RECURSIVE group_streaks(_, _, _, _)
group_streaks(sorted_dates, i, streak_length, streaks) ==
    IF i > Len(sorted_dates) THEN Append(streaks, streak_length)
    ELSE IF sorted_dates[i - 1] - sorted_dates[i] = 1
         THEN group_streaks(sorted_dates, i + 1, streak_length + 1, streaks)
         ELSE group_streaks(sorted_dates, i + 1, 1, Append(streaks, streak_length))

streaks_of(sorted_dates) ==
    IF sorted_dates = <<>> THEN <<>>
    ELSE group_streaks(sorted_dates, 2, 1, <<>>)

\* faulty variant: the current run is not removed from consideration
other_streaks_keep_all(streaks, current_streak) == streaks

\* other_streaks = streaks[1:] if streaks[0] == current_streak else streaks
other_streaks_of(streaks, current_streak) ==
    IF streaks[1] = current_streak THEN Tail(streaks) ELSE streaks

previous_of(current_streak, streaks, date_set, today) ==
    IF current_streak > 0 /\ Len(streaks) > 1
    THEN LET other_streaks == other_streaks_of(streaks, current_streak)
         IN  [previous_streak |->
                  IF other_streaks # <<>> THEN SeqMax(other_streaks) ELSE 0,
              previous_streak_end |-> None]
    ELSE IF current_streak = 0 /\ streaks # <<>>
    THEN [previous_streak |-> streaks[1],
          previous_streak_end |-> Some(today - SetMax(date_set))]
    ELSE [previous_streak |-> 0, previous_streak_end |-> None]

calculate_streaks(ledger, today) ==
    IF DOMAIN ledger = {} THEN <<0, 0, None>>
    ELSE LET date_set == DOMAIN ledger
             current_streak == current_streak_of(date_set, today)
             streaks == streaks_of(sorted_dates_of(date_set))
             p == previous_of(current_streak, streaks, date_set, today)
         IN  <<current_streak, p.previous_streak, p.previous_streak_end>>

(***************************************************************************)
(* The hosting service, as the program's calls see it.                     *)
(*                                                                         *)
(* Timestamps offered to the program: the last hour of the day before the  *)
(* lookback window, five o'clock today, and the service's present moment   *)
(* (whose UTC date is the local tomorrow when the local clock lags UTC:    *)
(* 02:00 UTC is 18:00 of the day before, eight hours west).                *)
(***************************************************************************)
Clocks == {[utc |-> 24002, tz_west |-> 8], [utc |-> 24012, tz_west |-> 0]}

OldTs == DateOf(StartDate(days_back)) * 24 - 1
InTs == Today * 24 + 5

RepoProfiles == [fork : BOOLEAN, size : {0, 120}]

ErrorKinds == {"409", "404", "other"}

NoCall == [raises |-> "nocall", items |-> <<>>]

\* a commit carries the author's date (read by the program) and the
\* committer's date (bounded by the since/until of the query)
CommitUniverse ==
    {c \in [author : {OldTs, InTs}, committer : {OldTs, InTs}] :
        c.author <= c.committer}

\* api.repos.list_commits(owner, repo, author, since, until): raises, or
\* lists commits committed within [since, until], here with the author
\* dates newest first
list_commits(since, until) ==
    {[raises |-> e, items |-> <<>>] : e \in ErrorKinds}
    \cup {[raises |-> "no", items |-> cs] :
            cs \in {s \in SeqsUpTo({c \in CommitUniverse :
                                      since <= c.committer
                                      /\ c.committer <= until},
                                   MaxCommits) :
                      \A k \in 1..(Len(s) - 1) :
                          s[k].author >= s[k + 1].author}}

\* api.repos.list_releases(owner, repo): raises, or lists the releases,
\* newest first, no two created within the same hour
list_releases ==
    {[raises |-> "other", items |-> <<>>]}
    \cup {[raises |-> "no", items |-> rs] :
            rs \in {s \in SeqsUpTo({[created_at |-> t] : t \in {OldTs, InTs}},
                                   MaxReleases) :
                      \A k \in 1..(Len(s) - 1) :
                          s[k].created_at > s[k + 1].created_at}}

\* api.search.issues_and_pull_requests("author:.. type:.. created:>=start"):
\* items created on or after the start day and no later than the present
list_search(start_day) ==
    SeqsUpTo({it \in [created_at : {OldTs, utc_now},
                      pull_request : BOOLEAN] :
                 DateOf(it.created_at) >= start_day},
             MaxFound)

\* one answer per repository: sequences s with s[i] \in choices[i]
RECURSIVE AnswersPerRepo(_, _)
AnswersPerRepo(choices, n) ==
    IF n = 0 THEN {<<>>}
    ELSE {Append(s, a) : s \in AnswersPerRepo(choices, n - 1),
                         a \in choices[n]}

(***************************************************************************)
(* The collector                                                           *)
(***************************************************************************)
\* for date in dates: activity_dates[date].append(kind)
\* faulty variant: the list of a date is overwritten instead of appended to
add_dates_overwrite(ledger, dates, kind) ==
    [d \in DOMAIN ledger \cup dates |->
        IF d \in dates THEN <<kind>> ELSE ledger[d]]

add_dates(ledger, dates, kind) ==
    [d \in DOMAIN ledger \cup dates |->
        IF d \in dates
        THEN Append(IF d \in DOMAIN ledger THEN ledger[d] ELSE <<>>, kind)
        ELSE ledger[d]]

\* the body of "for repo in repos" in get_commit_dates
RECURSIVE commit_loop(_, _, _, _)
commit_loop(rs, answer, i, acc) ==
    IF i > Len(rs) THEN acc
    ELSE IF rs[i].fork THEN commit_loop(rs, answer, i + 1, acc)
    ELSE IF rs[i].size = 0 THEN commit_loop(rs, answer, i + 1, acc)
    ELSE LET asked == [acc EXCEPT !.queried = @ \cup {i}]
         IN  IF answer[i].raises # "no"
             THEN \* "409", "404" and any other error: skipped, continue
                  commit_loop(rs, answer, i + 1, asked)
             ELSE commit_loop(rs, answer, i + 1,
                      [asked EXCEPT !.dates = @ \cup
                          {DateOf(answer[i].items[k].author) :
                              k \in DOMAIN answer[i].items}])

\* faulty variant: a repository whose listing raises ends the scan (no inner try)
get_commit_dates_abort(listing_raises, rs, answer) ==
    IF listing_raises
       \/ \E i \in DOMAIN rs :
              ~rs[i].fork /\ rs[i].size # 0 /\ answer[i].raises # "no"
    THEN [dates |-> {}, queried |-> {}]
    ELSE commit_loop(rs, answer, 1, [dates |-> {}, queried |-> {}])

get_commit_dates(listing_raises, rs, answer) ==
    IF listing_raises THEN [dates |-> {}, queried |-> {}]
    ELSE commit_loop(rs, answer, 1, [dates |-> {}, queried |-> {}])

get_repository_dates(listing_raises, listing, start_date, end_date) ==
    IF listing_raises THEN {}
    ELSE {DateOf(listing[i].created_at) :
            i \in {j \in DOMAIN listing :
                     /\ ~listing[j].fork
                     /\ DateOf(start_date) <= DateOf(listing[j].created_at)
                     /\ DateOf(listing[j].created_at) <= DateOf(end_date)}}

get_issue_dates(search_raises, items) ==
    IF search_raises THEN {}
    ELSE {DateOf(items[k].created_at) :
            k \in {j \in DOMAIN items : ~items[j].pull_request}}

get_pr_dates(search_raises, items) ==
    IF search_raises THEN {}
    ELSE {DateOf(items[k].created_at) :
            k \in {j \in DOMAIN items : items[j].pull_request}}

\* the body of "for repo in repos" in get_release_dates
RECURSIVE release_loop(_, _, _, _, _, _)
release_loop(rs, answer, start_date, end_date, i, acc) ==
    IF i > Len(rs) THEN acc
    ELSE IF rs[i].fork
    THEN release_loop(rs, answer, start_date, end_date, i + 1, acc)
    ELSE LET asked == [acc EXCEPT !.queried = @ \cup {i}]
             found == {DateOf(answer[i].items[k].created_at) :
                         k \in {j \in DOMAIN answer[i].items :
                                  /\ DateOf(start_date)
                                        <= DateOf(answer[i].items[j].created_at)
                                  /\ DateOf(answer[i].items[j].created_at)
                                        <= DateOf(end_date)}}
         IN  IF answer[i].raises # "no"
             THEN release_loop(rs, answer, start_date, end_date, i + 1, asked)
             ELSE release_loop(rs, answer, start_date, end_date, i + 1,
                      [asked EXCEPT !.dates = @ \cup found,
                                    !.src = IF found = {} THEN @
                                            ELSE @ \cup {i}])

get_release_dates(listing_raises, rs, answer, start_date, end_date) ==
    IF listing_raises THEN [dates |-> {}, queried |-> {}, src |-> {}]
    ELSE release_loop(rs, answer, start_date, end_date, 1,
                      [dates |-> {}, queried |-> {}, src |-> {}])

(***************************************************************************)
(* One run of the tool                                                     *)
(***************************************************************************)
EmptyLedger == <<>>

NoDates == [k \in Kinds |-> {}]

Init ==
    /\ pc = "main"
    /\ \E c \in Clocks : utc_now = c.utc /\ now = c.utc - c.tz_west
    /\ args_days = DefaultDays
    /\ days_back = DefaultDays
    /\ repos \in SeqsUpTo(RepoProfiles, MaxRepos)
    /\ failed = {}
    /\ api_log = <<>>
    /\ commit_queries = {}
    /\ release_queries = {}
    /\ release_src = {}
    /\ cat_dates = NoDates
    /\ activity_dates = EmptyLedger
    /\ result = None

\* main(): parse the flags, build the tracker (ValueError without a token)
Main ==
    /\ pc = "main"
    /\ \E given \in BOOLEAN, d \in {30}, token \in BOOLEAN :
          /\ args_days' = IF given THEN d ELSE DefaultDays
          /\ pc' = IF token THEN "display" ELSE "exit"
    /\ UNCHANGED <<now, utc_now, days_back, repos, failed, api_log,
                   commit_queries, release_queries, release_src, cat_dates,
                   activity_dates, result>>

\* display_streak_info() calls get_all_activity_dates(days_back=365)
DisplayStreakInfo ==
    /\ pc = "display"
    /\ days_back' = DisplayDaysBack
    /\ activity_dates' = EmptyLedger
    /\ pc' = "commits"
    /\ UNCHANGED <<now, utc_now, args_days, repos, failed, api_log,
                   commit_queries, release_queries, release_src, cat_dates,
                   result>>

CommitChoice(repo) ==
    IF repo.fork \/ repo.size = 0 THEN {NoCall}
    ELSE list_commits(StartDate(days_back), EndDate)

CollectCommits ==
    /\ pc = "commits"
    /\ \E listing_raises \in BOOLEAN :
       \E answer \in IF listing_raises
                     THEN {[i \in DOMAIN repos |-> NoCall]}
                     ELSE AnswersPerRepo([i \in DOMAIN repos |-> CommitChoice(repos[i])],
                                         Len(repos)) :
          LET r == get_commit_dates(listing_raises, repos, answer)
          IN  /\ cat_dates' = [cat_dates EXCEPT !["commit"] = r.dates]
              /\ activity_dates' = add_dates(activity_dates, r.dates, "commit")
              /\ commit_queries' = r.queried
              /\ api_log' = answer
              /\ failed' = IF listing_raises THEN failed \cup {"commit"}
                           ELSE failed
    /\ pc' = "repos"
    /\ UNCHANGED <<now, utc_now, args_days, days_back, repos,
                   release_queries, release_src, result>>

\* created_at is read for repositories that are not forks
CreatedChoice(repo) == IF repo.fork THEN {InTs} ELSE {OldTs, InTs, utc_now}

CollectRepos ==
    /\ pc = "repos"
    /\ \E listing_raises \in BOOLEAN :
       \E created \in AnswersPerRepo([i \in DOMAIN repos |->
                                          CreatedChoice(repos[i])],
                                      Len(repos)) :
          LET listing == [i \in DOMAIN repos |->
                            [fork |-> repos[i].fork,
                             created_at |-> created[i]]]
              dates == get_repository_dates(listing_raises, listing,
                                            StartDate(days_back), EndDate)
          IN  /\ cat_dates' = [cat_dates EXCEPT !["repo"] = dates]
              /\ activity_dates' = add_dates(activity_dates, dates, "repo")
              /\ failed' = IF listing_raises THEN failed \cup {"repo"}
                           ELSE failed
    /\ api_log' = <<>>
    /\ pc' = "issues"
    /\ UNCHANGED <<now, utc_now, args_days, days_back, repos,
                   commit_queries, release_queries, release_src, result>>

CollectIssues ==
    /\ pc = "issues"
    /\ \E search_raises \in BOOLEAN :
       \E items \in list_search(DateOf(StartDate(days_back))) :
          LET dates == get_issue_dates(search_raises, items)
          IN  /\ cat_dates' = [cat_dates EXCEPT !["issue"] = dates]
              /\ activity_dates' = add_dates(activity_dates, dates, "issue")
              /\ failed' = IF search_raises THEN failed \cup {"issue"}
                           ELSE failed
    /\ pc' = "prs"
    /\ UNCHANGED <<now, utc_now, args_days, days_back, repos, api_log,
                   commit_queries, release_queries, release_src, result>>

CollectPrs ==
    /\ pc = "prs"
    /\ \E search_raises \in BOOLEAN :
       \E items \in list_search(DateOf(StartDate(days_back))) :
          LET dates == get_pr_dates(search_raises, items)
          IN  /\ cat_dates' = [cat_dates EXCEPT !["pr"] = dates]
              /\ activity_dates' = add_dates(activity_dates, dates, "pr")
              /\ failed' = IF search_raises THEN failed \cup {"pr"}
                           ELSE failed
    /\ pc' = "releases"
    /\ UNCHANGED <<now, utc_now, args_days, days_back, repos, api_log,
                   commit_queries, release_queries, release_src, result>>

ReleaseChoice(repo) == IF repo.fork THEN {NoCall} ELSE list_releases

CollectReleases ==
    /\ pc = "releases"
    /\ \E listing_raises \in BOOLEAN :
       \E answer \in IF listing_raises
                     THEN {[i \in DOMAIN repos |-> NoCall]}
                     ELSE AnswersPerRepo([i \in DOMAIN repos |-> ReleaseChoice(repos[i])],
                                         Len(repos)) :
          LET r == get_release_dates(listing_raises, repos, answer,
                                     StartDate(days_back), EndDate)
          IN  /\ cat_dates' = [cat_dates EXCEPT !["release"] = r.dates]
              /\ activity_dates' = add_dates(activity_dates, r.dates, "release")
              /\ release_queries' = r.queried
              /\ release_src' = r.src
              /\ failed' = IF listing_raises THEN failed \cup {"release"}
                           ELSE failed
    /\ pc' = "collected"
    /\ UNCHANGED <<now, utc_now, args_days, days_back, repos, api_log,
                   commit_queries, result>>

\* display_streak_info(): "if not activity_dates: return", else the report
Report ==
    /\ pc = "collected"
    /\ result' = IF DOMAIN activity_dates = {} THEN None
                 ELSE calculate_streaks(activity_dates, Today)
    /\ pc' = "done"
    /\ UNCHANGED <<now, utc_now, args_days, days_back, repos, failed, api_log,
                   commit_queries, release_queries, release_src, cat_dates,
                   activity_dates>>

Next ==
    \/ Main
    \/ DisplayStreakInfo
    \/ CollectCommits
    \/ CollectRepos
    \/ CollectIssues
    \/ CollectPrs
    \/ CollectReleases
    \/ Report

Spec == Init /\ [][Next]_vars

(***************************************************************************)
(* calculate_streaks on an arbitrary ledger and clock                      *)
(***************************************************************************)
InitCalc ==
    /\ pc = "calc"
    /\ \E k \in 0..5 : now = (MaxDate + 2 - k) * 24 + 9
    /\ utc_now = now
    /\ args_days = DefaultDays
    /\ days_back = DefaultDays
    /\ repos = <<>>
    /\ failed = {}
    /\ api_log = <<>>
    /\ commit_queries = {}
    /\ release_queries = {}
    /\ release_src = {}
    /\ cat_dates = NoDates
    /\ activity_dates \in {[d \in D |-> <<"commit">>] : D \in SUBSET (1..MaxDate)}
    /\ result = None

CalculateStreaks ==
    /\ pc = "calc"
    /\ result' = calculate_streaks(activity_dates, Today)
    /\ pc' = "returned"
    /\ UNCHANGED <<now, utc_now, args_days, days_back, repos, failed, api_log,
                   commit_queries, release_queries, release_src, cat_dates,
                   activity_dates>>

NextCalc == CalculateStreaks

SpecCalc == InitCalc /\ [][NextCalc]_vars

(***************************************************************************)
(* Properties                                                              *)
(***************************************************************************)
\* calculate_streaks has returned (display_streak_info calls it only for a
\* ledger that is not empty)
Returned == pc = "returned" \/ (pc = "done" /\ DOMAIN activity_dates # {})

ActiveDates == DOMAIN activity_dates

HasAnchor == Today \in ActiveDates \/ (Today - 1) \in ActiveDates

AnchorDate == IF Today \in ActiveDates THEN Today ELSE Today - 1

\* the maximal runs of consecutive calendar dates of D, as <<first, last>>
RunsOf(D) ==
    {r \in D \X D :
        /\ r[1] <= r[2]
        /\ \A d \in r[1]..r[2] : d \in D
        /\ (r[1] - 1) \notin D
        /\ (r[2] + 1) \notin D}

RunLength(r) == r[2] - r[1] + 1

LongestOf(runs) ==
    IF runs = {} THEN 0
    ELSE RunLength(CHOOSE r \in runs :
                      \A q \in runs : RunLength(q) <= RunLength(r))

RunsBesideAnchor ==
    {r \in RunsOf(ActiveDates) : ~(r[1] <= AnchorDate /\ AnchorDate <= r[2])}

\* C1: with an anchor (today if active, else yesterday if active) the
\* current streak is the k >= 1 with anchor, ..., anchor-(k-1) active and
\* anchor-k inactive, and is at most the size of the run ending at the
\* anchor; without an anchor it is 0.
C1_CurrentStreak ==
    pc = "returned" =>
        IF HasAnchor
        THEN LET k == result[1]
             IN  /\ k >= 1
                 /\ \A j \in 0..(k - 1) : (AnchorDate - j) \in ActiveDates
                 /\ (AnchorDate - k) \notin ActiveDates
                 /\ k <= Cardinality({d \in ActiveDates :
                                        /\ d <= AnchorDate
                                        /\ \A e \in d..AnchorDate :
                                               e \in ActiveDates})
        ELSE result[1] = 0

C1_Witness ==
    /\ pc = "returned"
    /\ Today \notin ActiveDates
    /\ (Today - 1) \in ActiveDates
    /\ (Today - 2) \in ActiveDates
    /\ (Today - 3) \notin ActiveDates
    /\ result[1] = 2

\* C2: when no active date is later than today and a current streak exists,
\* previous_streak is the longest maximal run other than the run holding
\* the anchor (0 when there is no other run), and the run dropped for its
\* length is the first one, the anchor's.
C2_PreviousStreak ==
    (pc = "returned" /\ HasAnchor /\ \A d \in ActiveDates : d <= Today) =>
        LET streaks == streaks_of(sorted_dates_of(ActiveDates))
        IN  /\ result[2] = LongestOf(RunsBesideAnchor)
            /\ Len(streaks) > 1 =>
                   other_streaks_of(streaks, result[1]) = Tail(streaks)

\* another run is as long as the current streak
C2_Witness ==
    /\ pc = "returned"
    /\ HasAnchor
    /\ \A d \in ActiveDates : d <= Today
    /\ result[1] >= 2
    /\ \E r \in RunsBesideAnchor : RunLength(r) = result[1]
    /\ result[2] = result[1]

\* C3: without a current streak, previous_streak is the length of the
\* longest maximal run of the active dates.
C3_BestRun ==
    (pc = "returned" /\ ActiveDates # {} /\ ~HasAnchor) =>
        result[2] = LongestOf(RunsOf(ActiveDates))

\* C4: days_since_last_activity is populated exactly when current_streak is
\* 0 and there is an active date, and is then the non-negative number
\* today - max(active dates); otherwise it is none, and an empty ledger
\* gives (0, 0, none).
C4_DaysSince ==
    Returned =>
        /\ ActiveDates = {} => result = <<0, 0, None>>
        /\ IF result[1] = 0 /\ ActiveDates # {}
           THEN /\ result[3] = Some(Today - SetMax(ActiveDates))
                /\ result[3][1] >= 0
           ELSE result[3] = None

\* C5: after get_commit_dates, the commit-date set holds the date of every
\* commit listed for every scanned repository whose listing did not raise,
\* whichever other repositories raised.
C5_CommitDatesSurvive ==
    (pc = "repos" /\ "commit" \notin failed) =>
        \A i \in DOMAIN repos :
            (~repos[i].fork /\ repos[i].size # 0 /\ api_log[i].raises = "no") =>
                \A k \in DOMAIN api_log[i].items :
                    DateOf(api_log[i].items[k].author) \in cat_dates["commit"]

\* a repository raises and a later one lists a commit
C5_Witness ==
    /\ pc = "repos"
    /\ "commit" \notin failed
    /\ \E i, j \in DOMAIN repos :
          /\ i < j
          /\ api_log[i].raises = "409"
          /\ api_log[j].raises = "no"
          /\ api_log[j].items # <<>>
          /\ cat_dates["commit"] # {}

\* C6: when the collection has finished, a category whose top-level call
\* raised has contributed no date, and every date of every other category
\* is in the ledger under that category's kind.
C6_CategoryIsolation ==
    pc \in {"collected", "done"} =>
        /\ \A c \in failed :
              /\ cat_dates[c] = {}
              /\ \A d \in ActiveDates : c \notin Range(activity_dates[d])
        /\ \A c \in Kinds \ failed :
              \A d \in cat_dates[c] :
                  d \in ActiveDates /\ c \in Range(activity_dates[d])

\* the issue search raised; commits, before it, and releases, after it,
\* are in the ledger on the same date
C6_Witness ==
    /\ pc = "collected"
    /\ "issue" \in failed
    /\ \E d \in ActiveDates :
          /\ d \in cat_dates["commit"]
          /\ d \in cat_dates["release"]
          /\ "commit" \in Range(activity_dates[d])
          /\ "release" \in Range(activity_dates[d])

\* C7: every key of the ledger lies within the lookback window.
C7_WithinWindow ==
    pc \in {"collected", "done"} =>
        \A d \in ActiveDates :
            DateOf(StartDate(days_back)) <= d /\ d <= DateOf(EndDate)

\* C8: for a fork or a repository of size zero, neither the commits nor the
\* releases are listed, and no release date of it enters the ledger.
C8_ExcludedRepos ==
    pc \in {"collected", "done"} =>
        \A i \in DOMAIN repos :
            (repos[i].fork \/ repos[i].size = 0) =>
                /\ i \notin commit_queries
                /\ i \notin release_queries
                /\ i \notin release_src

\* C9: the lookback window the collector uses is the day count given with
\* --days (365 when none is given).
C9_DaysFlag ==
    pc \in {"commits", "repos", "issues", "prs", "releases", "collected",
            "done"} =>
        days_back = args_days

\* the commits the scan of the repositories observed on date d
CommitsOn(d) ==
    {p \in (DOMAIN api_log) \X (1..MaxCommits) :
        /\ api_log[p[1]].raises = "no"
        /\ p[2] \in DOMAIN api_log[p[1]].items
        /\ DateOf(api_log[p[1]].items[p[2]].author) = d}

\* C10: the list of a date holds "commit" once per commit observed on it.
C10_OneEntryPerActivity ==
    (pc = "repos" /\ "commit" \notin failed) =>
        \A d \in ActiveDates :
            Count(activity_dates[d], "commit") = Cardinality(CommitsOn(d))

====
